---- MODULE Spec2Model ----
(***************************************************************************)
(* State-machine model of data_wiping_tool: the wipe engine (wipe.py), the *)
(* command-line front-end (cli.py), the operation log (logger.py) and the  *)
(* wipe handlers of the GUI (gui.py).                                      *)
(*                                                                         *)
(* One call of one entry point is modelled per behaviour; `entry' says     *)
(* which: the raw device wiper (_raw_device_wipe), the file wiper          *)
(* (wipe_file), the folder wiper (wipe_folder), the drive wiper            *)
(* (wipe_drive), the CLI (main), the flash wiper (_usb_flash_secure_wipe), *)
(* the drive enumeration (get_available_drives), engine calls from two     *)
(* threads, a sequence of log_operation calls, or a GUI session.  I/O      *)
(* calls whose result depends on the operating system (open, write, fsync, *)
(* rename, unlink, rmtree) are nondeterministic over the results the call  *)
(* can have.                                                               *)
(***************************************************************************)
EXTENDS Integers, Sequences, FiniteSets, TLC

VARIABLES
    entry,            \* the entry point being executed
    platform,         \* platform.system(): "Windows" or "Linux"
    is_admin,         \* what _is_admin() returns
    method,           \* the method argument
    verify,           \* the verify argument
    \* ---- shared by the wipers ----
    pass_num,         \* local pass_num (1-based index into patterns)
    pos,              \* the file position of the open device or file handle
    writes,           \* writes made so far: <<pass, offset, length>>
    synced,           \* number of passes whose flush + fsync has returned
    passlog,          \* the pattern types of the passes begun so far
    \* ---- _raw_device_wipe ----
    dpc,              \* position inside _raw_device_wipe
    devSize,          \* the size of the device in bytes
    total_size,       \* local total_size
    total_sectors,    \* local total_sectors
    sectors_written,  \* local sectors_written (Windows loop counter)
    bytes_written,    \* local bytes_written (Linux loop counter)
    shorts,           \* number of short writes the device has made
    sizeQueried,      \* _get_drive_size has been called
    devOpened,        \* the device has been opened for writing
    result,           \* what the entry point returned or raised
    \* ---- wipe_file and _secure_overwrite_file ----
    fpc,              \* position inside wipe_file
    path,             \* the name of the target in its containing directory
    ents,             \* the containing directory: name -> what is there
    fsize,            \* the size in bytes of the target file
    fcontent,         \* what the bytes of the target file are
    size,             \* local size of _secure_overwrite_file
    remaining,        \* local remaining of _secure_overwrite_file
    orig_hash,        \* local orig_hash of wipe_file
    verification_result,  \* local verification_result of wipe_file
    final_path,       \* local final_path of wipe_file
    \* ---- wipe_folder, wipe_drive and the CLI ----
    tpc,              \* position inside wipe_folder / wipe_drive / main
    target,           \* the normalized path of the directory to wipe
    drive_type,       \* what detect_drive_type returns for the target
    tree,             \* directory of the tree -> (name -> what is there)
    texists,          \* directory of the tree -> it exists
    flist,            \* the files the wiping walk lists, in walk order
    fi,               \* index into flist of the next file
    dlist,            \* the directories the removal walk lists, in order
    di,               \* index into dlist of the next directory
    dprocessed,       \* directories the removal step has been called on
    clist,            \* the files the residual sweep lists
    ci,               \* index into clist of the next file
    results,          \* local results
    failures,         \* files whose wipe raised an exception
    mutated,          \* a write, rename, unlink or rmdir has been made
    \* ---- dispatch: wipe_drive's routing and the CLI ----
    raw_requested,    \* the caller wants the volume wiped through its raw device
    route,            \* the wiper wipe_drive handed the volume to
    method_used,      \* the method wipe_drive passed to that wiper
    argkind,          \* main: what the target argument names (file, dir, none)
    exit_code,        \* main: the exit status of the process
    \* ---- concurrent calls of the engine ----
    calls,            \* caller -> the call it has made, if any
    \* ---- _usb_flash_secure_wipe ----
    flpc,             \* position inside _usb_flash_secure_wipe
    has_admin,        \* local has_admin
    fl_results,       \* local results: the step records appended so far
    fl_i,             \* index into the step sequence of the next step
    fl_failed,        \* number of steps that have failed
    drive_path,       \* the drive_path argument: the mount path of the volume
    backing,          \* the device node the volume is mounted from
    physical_device,  \* local physical_device
    raw_written,      \* the device nodes the raw wipe has written to
    \* ---- get_available_drives ----
    epc,              \* position inside get_available_drives
    volumes,          \* the volumes of the system, in enumeration order
    ei,               \* index into volumes of the next volume
    drives,           \* local drives
    \* ---- WipeLogger ----
    now,              \* int(time.time()): the clock, in whole seconds
    operations,       \* data['operations'] as stored in wipe_history.json
    total_operations, \* data['total_operations'] as stored there
    op_logs,          \* the per-operation files of log_dir: id -> entry
    log_calls,        \* number of log_operation calls that have returned
    same_second,      \* calls made in the same second as the one before
    \* ---- the GUI: App.start_wipe and App._do_wipe ----
    path_var,         \* self.path_var: the text of the target entry
    method_var,       \* self.method_var: the selected method
    verify_var,       \* self.verify_var: the verify checkbox
    run_btn,          \* state of self.run_btn
    confirmed,        \* what start_wipe validated and the user confirmed
    wpc,              \* position of the worker thread inside _do_wipe
    do_wipe,          \* locals path, method, verify of _do_wipe
    threads,          \* number of worker threads that are alive
    started           \* number of worker threads started so far

envvars == <<entry, platform, is_admin, method, verify>>
iovars == <<pass_num, pos, writes, synced, passlog>>
devvars == <<dpc, devSize, total_size, total_sectors, sectors_written,
             bytes_written, shorts, sizeQueried, devOpened>>
filevars == <<fpc, path, ents, fsize, fcontent, size, remaining, orig_hash,
              verification_result, final_path>>
treevars == <<tpc, target, drive_type, tree, texists, flist, fi, dlist, di,
              dprocessed, clist, ci, results, failures, mutated>>
dispvars == <<raw_requested, route, method_used, argkind, exit_code>>
callvars == <<calls>>
flashvars == <<flpc, has_admin, fl_results, fl_i, fl_failed, drive_path, backing,
               physical_device, raw_written>>
enumvars == <<epc, volumes, ei, drives>>
logvars == <<now, operations, total_operations, op_logs, log_calls, same_second>>
guivars == <<path_var, method_var, verify_var, run_btn, confirmed, wpc, do_wipe,
             threads, started>>
auxvars == <<callvars, flashvars, enumvars, logvars, guivars>>
vars == <<envvars, iovars, devvars, filevars, treevars, dispvars, auxvars, result>>

(***************************************************************************)
(* Program constants                                                       *)
(***************************************************************************)
sector_size == 512
chunk_size == 1024 * 1024
RenameAttempts == 3
sample_count == 10
slack_bytes == 512

(***************************************************************************)
(* Bounds of the model                                                     *)
(***************************************************************************)
MaxDevChunks == 2     \* device sizes go up to this many 1 MiB chunks (+ tail)
MaxShort == 1         \* short writes per call
MaxFileChunks == 2    \* file sizes go up to this many 1 MiB chunks (+ 1 byte)
MaxTreeFiles == 2     \* files in the tree of a folder or drive wipe
MaxCallSteps == 2     \* writes a concurrent call makes on its target
MaxStepFailures == 2  \* steps of the flash fallback that fail in one call
MaxVolumes == 3       \* drive letters probed / entries of the mount table
MaxLogCalls == 102    \* log_operation calls made on one log directory
MaxSameSecond == 1    \* log_operation calls made within the second of the call before
MaxWipes == 2         \* wipes started from the GUI in one session

Platforms == {"Windows", "Linux"}
Methods == {"quick", "nist", "dod"}
\* what a caller can pass as method: the three methods and any other string
MethodArgs == Methods \cup {"other"}
\* device sizes: empty, one sector, a size that is no multiple of 512, whole
\* chunks and whole chunks plus a tail that is no multiple of 512
DevSizes == {0, 512, 1000}
            \cup {k * chunk_size : k \in 1..MaxDevChunks}
            \cup {k * chunk_size + 700 : k \in 1..MaxDevChunks}

\* file sizes: empty, one byte, below and at the 4 KiB sample size, ten samples,
\* whole chunks and whole chunks plus one byte
FileSizes == {0, 1, 600, 4096, 40960}
             \cup {k * chunk_size : k \in 1..MaxFileChunks}
             \cup {k * chunk_size + 1 : k \in 1..MaxFileChunks}
\* names in the containing directory; two of them are names that
\* _secure_rename_file can generate (16 characters out of 0-9A-Fa-f)
RandNames == {"0123456789abcdef", "FEDCBA9876543210"}
Names == {"report.txt"} \cup RandNames
PathNames == {"report.txt", "0123456789abcdef"}
\* the directories of the tree under the target: a is in root, b is in a
TreeDirs == {"root", "a", "b"}
SubDirs(d) == IF d = "root" THEN {"a", "b"} ELSE IF d = "a" THEN {"b"} ELSE {}
Children(d) == IF d = "root" THEN {"a"} ELSE IF d = "a" THEN {"b"} ELSE {}
\* the order in which a directory listing gives the names
NameOrder == <<"0123456789abcdef", "FEDCBA9876543210", "report.txt">>
\* targets: the system-deny set of each platform and a path outside it
LinuxDeny == {"/", "/boot", "/home"}
WindowsDeny == {"C:\\", "D:\\"}
Targets(plat) == IF plat = "Windows" THEN WindowsDeny \cup {"c:\\", "E:\\"}
                 ELSE LinuxDeny \cup {"/mnt/usb"}

\* the threads of the process that call the engine
Callers == {1, 2}
\* the entry points a thread can call, and the targets
CallEntries == {"wipe_file", "wipe_folder", "wipe_drive"}
CallTargets == {"/data/x", "/data/y"}
NoCall == [pc |-> "idle", entry |-> "none", target |-> "none",
           overlapped |-> FALSE, steps |-> 0]

Min(a, b) == IF a < b THEN a ELSE b
Max(a, b) == IF a > b THEN a ELSE b

(***************************************************************************)
(* Results                                                                 *)
(***************************************************************************)
NoResult == [status |-> "none", error |-> "none", sector |-> -1,
             passes_completed |-> 0, verified |-> "none"]
NoVerification == [present |-> FALSE, verified |-> FALSE, hash_changed |-> FALSE,
                   pattern_verified |-> FALSE]
Raised(e) == [NoResult EXCEPT !.status = "raised", !.error = e]

IoIdle == pass_num = 0 /\ pos = 0 /\ writes = <<>> /\ synced = 0 /\ passlog = <<>>

(***************************************************************************)
(* _raw_device_wipe                                                        *)
(***************************************************************************)
\* the pattern list of _raw_device_wipe: (pattern_type, pass_count) pairs
RawPatterns(m) ==
    IF m \in {"quick", "nist"} THEN << <<"random", 1>> >>
    ELSE IF m = "dod" THEN << <<"zero", 1>>, <<"one", 1>>, <<"random", 1>> >>
    ELSE << <<"random", 1>> >>

DevIdle ==
    /\ dpc = "idle" /\ devSize = 0 /\ total_size = 0 /\ total_sectors = 0
    /\ sectors_written = 0 /\ bytes_written = 0 /\ shorts = 0
    /\ sizeQueried = FALSE /\ devOpened = FALSE

TreeIdle ==
    /\ tpc = "idle" /\ target = "/mnt/usb" /\ drive_type = "unknown"
    /\ tree = [d \in TreeDirs |-> [n \in Names |-> "none"]]
    /\ texists = [d \in TreeDirs |-> FALSE]
    /\ flist = <<>> /\ fi = 0 /\ dlist = <<>> /\ di = 0 /\ dprocessed = {}
    /\ clist = <<>> /\ ci = 0 /\ results = <<>> /\ failures = {}
    /\ mutated = FALSE

DispIdle ==
    /\ raw_requested = FALSE /\ route = "none" /\ method_used = "none"
    /\ argkind = "dir" /\ exit_code = -1

CallIdle == calls = [c \in Callers |-> NoCall]
FlashIdle ==
    /\ flpc = "idle" /\ has_admin = FALSE /\ fl_results = <<>> /\ fl_i = 0
    /\ fl_failed = 0
    /\ drive_path = "none" /\ backing = "none" /\ physical_device = "none"
    /\ raw_written = {}
EnumIdle == epc = "idle" /\ volumes = <<>> /\ ei = 0 /\ drives = <<>>
\* no wipe confirmed yet, no locals of _do_wipe yet
NoWipe == [path |-> "none", method |-> "none", verify |-> FALSE]
LogIdle ==
    /\ now = 0 /\ operations = <<>> /\ total_operations = 0
    /\ op_logs = {} /\ log_calls = 0 /\ same_second = 0
GuiIdle ==
    /\ path_var = "" /\ method_var = "quick" /\ verify_var = TRUE
    /\ run_btn = "normal" /\ confirmed = NoWipe /\ wpc = "none"
    /\ do_wipe = NoWipe /\ threads = 0 /\ started = 0

FileIdle ==
    /\ fpc = "idle" /\ path = "report.txt" /\ ents = [n \in Names |-> "none"]
    /\ fsize = 0 /\ fcontent = "orig" /\ size = 0 /\ remaining = 0
    /\ orig_hash = "None" /\ verification_result = NoVerification
    /\ final_path = "report.txt"

InitDev ==
    /\ entry = "_raw_device_wipe"
    /\ platform \in Platforms
    /\ is_admin \in BOOLEAN
    /\ method \in MethodArgs
    /\ verify \in BOOLEAN
    /\ devSize \in DevSizes
    /\ dpc = "admin"
    /\ total_size = 0 /\ total_sectors = 0
    /\ sectors_written = 0 /\ bytes_written = 0 /\ shorts = 0
    /\ sizeQueried = FALSE /\ devOpened = FALSE
    /\ IoIdle /\ FileIdle /\ TreeIdle /\ DispIdle
    /\ CallIdle /\ FlashIdle /\ EnumIdle /\ LogIdle /\ GuiIdle
    /\ result = NoResult

\* RawAdminCheck without the _is_admin() test
RawAdminCheck_Skipped ==
    /\ dpc = "admin"
    /\ dpc' = "size"
    /\ UNCHANGED <<envvars, dispvars, auxvars, treevars, iovars, filevars, devSize, total_size, total_sectors,
                   sectors_written, bytes_written, shorts, sizeQueried,
                   devOpened, result>>

\* if not _is_admin(): raise WipeError("Administrator/root privileges required ...")
RawAdminCheck ==
    /\ dpc = "admin"
    /\ IF ~is_admin
       THEN /\ dpc' = "raised"
            /\ result' = Raised("PrivilegesRequired")
       ELSE /\ dpc' = "size"
            /\ UNCHANGED result
    /\ UNCHANGED <<envvars, dispvars, auxvars, treevars, iovars, filevars, devSize, total_size, total_sectors,
                   sectors_written, bytes_written, shorts, sizeQueried, devOpened>>

\* total_size = _get_drive_size(device_path); total_sectors = total_size // 512
RawGetSize ==
    /\ dpc = "size"
    /\ sizeQueried' = TRUE
    /\ \/ /\ total_size' = devSize
          /\ total_sectors' = devSize \div sector_size
          /\ dpc' = "open"
          /\ UNCHANGED result
       \/ \* _get_drive_size raises WipeError("Could not determine drive size")
          /\ dpc' = "raised"
          /\ result' = Raised("DeviceSizeUnknown")
          /\ UNCHANGED <<total_size, total_sectors>>
    /\ UNCHANGED <<envvars, dispvars, auxvars, treevars, iovars, filevars, devSize, sectors_written,
                   bytes_written, shorts, devOpened>>

\* CreateFileW(...) / open(device_path, 'r+b', buffering=0)
RawOpen ==
    /\ dpc = "open"
    /\ \/ /\ devOpened' = TRUE
          /\ pass_num' = 1
          /\ dpc' = "pass"
          /\ UNCHANGED result
       \/ /\ dpc' = "raised"
          /\ result' = Raised("DeviceOpenFailed")
          /\ UNCHANGED <<devOpened, pass_num>>
    /\ UNCHANGED <<envvars, dispvars, auxvars, treevars, filevars, pos, writes, synced, passlog, devSize,
                   total_size, total_sectors, sectors_written, bytes_written,
                   shorts, sizeQueried>>

\* RawPassBegin without the seek to the beginning of the device
RawPassBegin_NoSeek ==
    /\ dpc = "pass"
    /\ pass_num <= Len(RawPatterns(method))
    /\ passlog' = Append(passlog, RawPatterns(method)[pass_num][1])
    /\ sectors_written' = 0
    /\ bytes_written' = 0
    /\ dpc' = "write"
    /\ UNCHANGED <<envvars, dispvars, auxvars, treevars, filevars, pass_num, pos, writes, synced, devSize,
                   total_size, total_sectors, shorts, sizeQueried, devOpened,
                   result>>

\* head of `for pass_num, (pattern_type, _) in enumerate(patterns, 1)':
\* SetFilePointer(handle, 0, None, 0) / device.seek(0), counter = 0
RawPassBegin ==
    /\ dpc = "pass"
    /\ pass_num <= Len(RawPatterns(method))
    /\ passlog' = Append(passlog, RawPatterns(method)[pass_num][1])
    /\ pos' = 0
    /\ sectors_written' = 0
    /\ bytes_written' = 0
    /\ dpc' = "write"
    /\ UNCHANGED <<envvars, dispvars, auxvars, treevars, filevars, pass_num, writes, synced, devSize,
                   total_size, total_sectors, shorts, sizeQueried, devOpened,
                   result>>

\* the number of bytes a short write of a request of n bytes transfers
ShortCounts(n) == {k \in {512, n - 512} : 0 < k /\ k < n}

\* Windows: one iteration of `while sectors_written < total_sectors'
RawWriteWindows ==
    /\ dpc = "write"
    /\ platform = "Windows"
    /\ sectors_written < total_sectors
    /\ LET chunks_per_sector == Max(1, chunk_size \div sector_size)
           remaining_sectors == total_sectors - sectors_written
           current_chunk_sectors == Min(chunks_per_sector, remaining_sectors)
           current_chunk_size == current_chunk_sectors * sector_size
       IN \/ \* WriteFile wrote current_chunk_size bytes
             /\ writes' = Append(writes, <<pass_num, pos, current_chunk_size>>)
             /\ pos' = pos + current_chunk_size
             /\ sectors_written' = sectors_written + current_chunk_sectors
             /\ UNCHANGED <<dpc, result, shorts>>
          \/ \* bytes_written.value != current_chunk_size
             /\ shorts < MaxShort
             /\ \E k \in ShortCounts(current_chunk_size) :
                   /\ writes' = Append(writes, <<pass_num, pos, k>>)
                   /\ pos' = pos + k
             /\ shorts' = shorts + 1
             /\ dpc' = "raised"
             /\ result' = [Raised("DeviceWriteFailed") EXCEPT !.sector = sectors_written]
             /\ UNCHANGED sectors_written
          \/ \* not result
             /\ dpc' = "raised"
             /\ result' = [Raised("DeviceWriteFailed") EXCEPT !.sector = sectors_written]
             /\ UNCHANGED <<writes, pos, sectors_written, shorts>>
    /\ UNCHANGED <<envvars, dispvars, auxvars, treevars, filevars, pass_num, synced, passlog, devSize,
                   total_size, total_sectors, bytes_written, sizeQueried,
                   devOpened>>

\* Linux: one iteration of `while bytes_written < total_size'; the value
\* device.write(data) returns is not looked at
RawWriteLinux ==
    /\ dpc = "write"
    /\ platform = "Linux"
    /\ bytes_written < total_size
    /\ LET remaining_bytes == total_size - bytes_written
           current_chunk == Min(chunk_size, remaining_bytes)
       IN \/ \* device.write wrote current_chunk bytes
             /\ writes' = Append(writes, <<pass_num, pos, current_chunk>>)
             /\ pos' = pos + current_chunk
             /\ bytes_written' = bytes_written + current_chunk
             /\ UNCHANGED <<dpc, result, shorts>>
          \/ \* device.write wrote fewer bytes than it was given
             /\ shorts < MaxShort
             /\ \E k \in ShortCounts(current_chunk) :
                   /\ writes' = Append(writes, <<pass_num, pos, k>>)
                   /\ pos' = pos + k
             /\ shorts' = shorts + 1
             /\ bytes_written' = bytes_written + current_chunk
             /\ UNCHANGED <<dpc, result>>
          \/ \* device.write raised OSError
             /\ dpc' = "raised"
             /\ result' = Raised("RawWipeFailed")
             /\ UNCHANGED <<writes, pos, bytes_written, shorts>>
    /\ UNCHANGED <<envvars, dispvars, auxvars, treevars, filevars, pass_num, synced, passlog, devSize,
                   total_size, total_sectors, sectors_written, sizeQueried,
                   devOpened>>

\* the write loop of the pass is over
RawLoopDone ==
    IF platform = "Windows" THEN sectors_written >= total_sectors
                            ELSE bytes_written >= total_size

\* FlushFileBuffers(handle) / device.flush(); os.fsync(device.fileno())
RawFlush ==
    /\ dpc = "write"
    /\ RawLoopDone
    /\ \/ /\ synced' = synced + 1
          /\ pass_num' = pass_num + 1
          /\ dpc' = "pass"
          /\ UNCHANGED result
       \/ \* os.fsync raised OSError
          /\ platform = "Linux"
          /\ dpc' = "raised"
          /\ result' = Raised("RawWipeFailed")
          /\ UNCHANGED <<synced, pass_num>>
    /\ UNCHANGED <<envvars, dispvars, auxvars, treevars, filevars, pos, writes, passlog, devSize, total_size,
                   total_sectors, sectors_written, bytes_written, shorts,
                   sizeQueried, devOpened>>

\* after the loop over patterns: optional verification, then the result dict
RawReturn ==
    /\ dpc = "pass"
    /\ pass_num > Len(RawPatterns(method))
    /\ \E v \in {"true", "false"} :
          result' = [status |-> "returned", error |-> "none", sector |-> -1,
                     passes_completed |-> Len(RawPatterns(method)),
                     verified |-> IF verify THEN v ELSE "none"]
    /\ dpc' = "returned"
    /\ UNCHANGED <<envvars, dispvars, auxvars, treevars, iovars, filevars, devSize, total_size, total_sectors,
                   sectors_written, bytes_written, shorts, sizeQueried,
                   devOpened>>

(***************************************************************************)
(* wipe_file, _secure_overwrite_file and their helpers                     *)
(***************************************************************************)
\* FilePatterns with the all-ones pass of dod left out
FilePatterns_DodTwoPass(m) ==
    IF m \in {"quick", "nist"} THEN << <<"random", 1>> >>
    ELSE IF m = "dod" THEN << <<"zero", 1>>, <<"random", 1>> >>
    ELSE << >>

\* the pattern list of _secure_overwrite_file; an empty list stands for
\* `raise WipeError(Unsupported wipe method)'
FilePatterns(m) ==
    IF m \in {"quick", "nist"} THEN << <<"random", 1>> >>
    ELSE IF m = "dod" THEN << <<"zero", 1>>, <<"one", 1>>, <<"random", 1>> >>
    ELSE << >>

\* os.rename(src, dst) inside one directory: what the directory is afterwards
\* and whether the call returned (ok) or raised
OsRename(e, src, dst, plat) ==
    IF e[src] = "none" THEN [ok |-> FALSE, ents |-> e]
    ELSE IF src = dst THEN [ok |-> TRUE, ents |-> e]
    ELSE IF e[dst] = "dir" THEN [ok |-> FALSE, ents |-> e]
    ELSE IF e[dst] # "none" /\ plat = "Windows" THEN [ok |-> FALSE, ents |-> e]
    ELSE [ok |-> TRUE, ents |-> [e EXCEPT ![dst] = e[src], ![src] = "none"]]

\* the loop `for i in range(3)' of _secure_rename_file from iteration i on:
\* names[i] is the random_name of iteration i, and the rename of iteration
\* failAt raises for a reason outside the directory (permissions, a lock)
RECURSIVE RenameLoop(_, _, _, _, _, _)
RenameLoop(e, current_path, names, i, failAt, plat) ==
    IF i > RenameAttempts THEN [ents |-> e, current_path |-> current_path]
    ELSE IF i = failAt THEN [ents |-> e, current_path |-> current_path]
    ELSE LET r == OsRename(e, current_path, names[i], plat)
         IN IF r.ok
            THEN RenameLoop(r.ents, names[i], names, i + 1, failAt, plat)
            ELSE [ents |-> e, current_path |-> current_path]

\* _secure_rename_file(path): the directory afterwards and the value returned
SecureRenameFile(e, p, names, failAt, plat) ==
    RenameLoop(e, p, names, 1, failAt, plat)

RenameChoices == [1..RenameAttempts -> RandNames]
FailChoices == 1..(RenameAttempts + 1)

\* _sample_verify_patterns: the number of samples read, whether a sample of
\* random bytes can pass the unique-byte test, and the value returned for
\* verified_samples samples that passed
SampleSize(sz) == Min(4096, sz)
SamplesTaken(sz) == Min(sample_count, sz \div SampleSize(sz))
SampleCanPass(sz, m) ==
    Min(256, SampleSize(sz)) > SampleSize(sz) \div (IF m = "dod" THEN 8 ELSE 4)
SampleVerified(verified_samples) == verified_samples * 10 >= sample_count * 8

InitFile ==
    /\ entry = "wipe_file"
    /\ platform \in Platforms
    /\ is_admin = FALSE
    /\ method \in MethodArgs
    /\ verify \in BOOLEAN
    /\ path \in PathNames
    /\ \E kind \in {"target", "dir", "none"} :
          /\ \E others \in [Names -> {"none", "sibling"}] :
                ents = [others EXCEPT ![path] = kind]
          /\ fsize \in (IF kind = "target" THEN FileSizes ELSE {0})
    /\ fpc = "validate"
    /\ fcontent = "orig" /\ size = 0 /\ remaining = 0
    /\ orig_hash = "None" /\ verification_result = NoVerification
    /\ final_path = path
    /\ IoIdle /\ DevIdle /\ TreeIdle /\ DispIdle
    /\ CallIdle /\ FlashIdle /\ EnumIdle /\ LogIdle /\ GuiIdle
    /\ result = NoResult

\* wipe_file: exists / isfile / open(path, 'rb') checks
WfValidate ==
    /\ fpc = "validate"
    /\ \/ /\ ents[path] = "none"
          /\ fpc' = "raised" /\ result' = Raised("PathNotFound")
       \/ /\ ents[path] \notin {"none", "target"}
          /\ fpc' = "raised" /\ result' = Raised("NotAFile")
       \/ /\ ents[path] = "target"
          /\ \/ fpc' = "hash" /\ UNCHANGED result
             \/ fpc' = "raised" /\ result' = Raised("NotAccessible")
    /\ UNCHANGED <<envvars, dispvars, auxvars, treevars, iovars, devvars, path, ents, fsize, fcontent, size,
                   remaining, orig_hash, verification_result, final_path>>

\* orig_hash = sha256_file(path) if verify else None (outside the try block)
WfHash ==
    /\ fpc = "hash"
    /\ IF verify
       THEN \/ orig_hash' = "orig" /\ fpc' = "ov_start" /\ UNCHANGED result
            \/ /\ fpc' = "raised" /\ result' = Raised("OSError")
               /\ UNCHANGED orig_hash
       ELSE orig_hash' = "None" /\ fpc' = "ov_start" /\ UNCHANGED result
    /\ UNCHANGED <<envvars, dispvars, auxvars, treevars, iovars, devvars, path, ents, fsize, fcontent, size,
                   remaining, verification_result, final_path>>

\* _secure_overwrite_file up to the loop over patterns
OvStart ==
    /\ fpc = "ov_start"
    /\ size' = fsize
    /\ IF fsize = 0
       THEN \* return (None)
            /\ fpc' = "rename"
            /\ verification_result' = NoVerification
            /\ UNCHANGED <<pass_num, result>>
       ELSE IF Len(FilePatterns(method)) = 0
       THEN /\ fpc' = "raised" /\ result' = Raised("OverwriteFailed")
            /\ UNCHANGED <<pass_num, verification_result>>
       ELSE /\ fpc' = "ov_open" /\ pass_num' = 1
            /\ UNCHANGED <<result, verification_result>>
    /\ UNCHANGED <<envvars, dispvars, auxvars, treevars, devvars, pos, writes, synced, passlog, path, ents,
                   fsize, fcontent, remaining, orig_hash, final_path>>

\* with open(path, 'r+b', buffering=0) as f: f.seek(0); remaining = size
\* (every pattern has pass_count 1, so the sub_pass loop runs once)
OvOpen ==
    /\ fpc = "ov_open"
    /\ \/ /\ passlog' = Append(passlog, FilePatterns(method)[pass_num][1])
          /\ pos' = 0
          /\ remaining' = size
          /\ fpc' = "ov_write"
          /\ UNCHANGED result
       \/ /\ fpc' = "raised" /\ result' = Raised("OverwriteFailed")
          /\ UNCHANGED <<passlog, pos, remaining>>
    /\ UNCHANGED <<envvars, dispvars, auxvars, treevars, devvars, pass_num, writes, synced, path, ents, fsize,
                   fcontent, size, orig_hash, verification_result, final_path>>

\* OvWrite that ends the pass after its first chunk
OvWrite_FirstChunkOnly ==
    /\ fpc = "ov_write"
    /\ remaining > 0
    /\ LET n == Min(chunk_size, remaining)
       IN \/ /\ writes' = Append(writes, <<pass_num, pos, n>>)
             /\ pos' = pos + n
             /\ remaining' = 0
             /\ fcontent' = IF remaining - n = 0
                            THEN FilePatterns(method)[pass_num][1] ELSE "mixed"
             /\ UNCHANGED <<fpc, result>>
          \/ /\ fpc' = "raised" /\ result' = Raised("OverwriteFailed")
             /\ UNCHANGED <<writes, pos, remaining, fcontent>>
    /\ UNCHANGED <<envvars, dispvars, auxvars, treevars, devvars, pass_num, synced, passlog, path, ents, fsize,
                   size, orig_hash, verification_result, final_path>>

\* one iteration of `while remaining > 0'
OvWrite ==
    /\ fpc = "ov_write"
    /\ remaining > 0
    /\ LET n == Min(chunk_size, remaining)
       IN \/ /\ writes' = Append(writes, <<pass_num, pos, n>>)
             /\ pos' = pos + n
             /\ remaining' = remaining - n
             /\ fcontent' = IF remaining - n = 0
                            THEN FilePatterns(method)[pass_num][1] ELSE "mixed"
             /\ UNCHANGED <<fpc, result>>
          \/ /\ fpc' = "raised" /\ result' = Raised("OverwriteFailed")
             /\ UNCHANGED <<writes, pos, remaining, fcontent>>
    /\ UNCHANGED <<envvars, dispvars, auxvars, treevars, devvars, pass_num, synced, passlog, path, ents, fsize,
                   size, orig_hash, verification_result, final_path>>

\* OvSync with the flush and fsync left out
OvSync_NoSync ==
    /\ fpc = "ov_write"
    /\ remaining = 0
    /\ IF pass_num < Len(FilePatterns(method))
       THEN pass_num' = pass_num + 1 /\ fpc' = "ov_open"
       ELSE UNCHANGED pass_num /\ fpc' = "ov_verify"
    /\ UNCHANGED <<envvars, dispvars, auxvars, treevars, devvars, pos, writes, synced, passlog, path, ents,
                   fsize, fcontent, size, remaining, orig_hash,
                   verification_result, final_path, result>>

\* f.flush(); os.fsync(f.fileno()) and the step to the next pattern
OvSync ==
    /\ fpc = "ov_write"
    /\ remaining = 0
    /\ \/ /\ synced' = synced + 1
          /\ IF pass_num < Len(FilePatterns(method))
             THEN pass_num' = pass_num + 1 /\ fpc' = "ov_open"
             ELSE UNCHANGED pass_num /\ fpc' = "ov_verify"
          /\ UNCHANGED result
       \/ /\ fpc' = "raised" /\ result' = Raised("OverwriteFailed")
          /\ UNCHANGED <<synced, pass_num>>
    /\ UNCHANGED <<envvars, dispvars, auxvars, treevars, devvars, pos, writes, passlog, path, ents, fsize,
                   fcontent, size, remaining, orig_hash, verification_result,
                   final_path>>

\* if verify: verification_result = _verify_overwrite(path, original_hash, method)
OvVerify ==
    /\ fpc = "ov_verify"
    /\ IF verify
       THEN \E verified_samples \in
                 (IF SampleCanPass(size, method) THEN 0..SamplesTaken(size) ELSE {0}) :
               LET hash_changed == (fcontent # "orig")
                   sample_verification == SampleVerified(verified_samples)
               IN verification_result' =
                     [present |-> TRUE,
                      verified |-> hash_changed /\ sample_verification,
                      hash_changed |-> hash_changed,
                      pattern_verified |-> sample_verification]
       ELSE verification_result' = NoVerification
    /\ fpc' = "ov_slack"
    /\ UNCHANGED <<envvars, dispvars, auxvars, treevars, iovars, devvars, path, ents, fsize, fcontent, size,
                   remaining, orig_hash, final_path, result>>

\* _wipe_file_slack_space(path): 512 zero bytes written at offset size, then
\* truncated away; every failure is swallowed.  Pass 0 in writes is this write.
OvSlack ==
    /\ fpc = "ov_slack"
    /\ \/ writes' = Append(writes, <<0, size, slack_bytes>>)
       \/ UNCHANGED writes
    /\ fpc' = "ov_rename"
    /\ UNCHANGED <<envvars, dispvars, auxvars, treevars, devvars, pass_num, pos, synced, passlog, path, ents,
                   fsize, fcontent, size, remaining, orig_hash,
                   verification_result, final_path, result>>

\* _secure_rename_file(path) at the end of _secure_overwrite_file; the value
\* it returns is dropped
OvRename ==
    /\ fpc = "ov_rename"
    /\ \E names \in RenameChoices, failAt \in FailChoices :
          ents' = SecureRenameFile(ents, path, names, failAt, platform).ents
    /\ fpc' = "rename"
    /\ UNCHANGED <<envvars, dispvars, auxvars, treevars, iovars, devvars, path, fsize, fcontent, size,
                   remaining, orig_hash, verification_result, final_path, result>>

\* final_path = _secure_rename_file(path)
WfRename ==
    /\ fpc = "rename"
    /\ \E names \in RenameChoices, failAt \in FailChoices :
          LET r == SecureRenameFile(ents, path, names, failAt, platform)
          IN ents' = r.ents /\ final_path' = r.current_path
    /\ fpc' = "remove"
    /\ UNCHANGED <<envvars, dispvars, auxvars, treevars, iovars, devvars, path, fsize, fcontent, size,
                   remaining, orig_hash, verification_result, result>>

\* _force_remove_file(p): the directory afterwards; ok says whether one of
\* os.remove / os.unlink got rid of the entry
ForceRemoveFile(e, p, ok) ==
    IF e[p] = "none" THEN e
    ELSE IF ok /\ e[p] # "dir" THEN [e EXCEPT ![p] = "none"]
    ELSE e

\* _force_remove_file(final_path)
WfRemove ==
    /\ fpc = "remove"
    /\ \E ok \in BOOLEAN : ents' = ForceRemoveFile(ents, final_path, ok)
    /\ fpc' = "check"
    /\ UNCHANGED <<envvars, dispvars, auxvars, treevars, iovars, devvars, path, fsize, fcontent, size,
                   remaining, orig_hash, verification_result, final_path, result>>

\* WfCheckGone without the os.path.exists(final_path) test
WfCheckGone_NoCheck ==
    /\ fpc = "check"
    /\ fpc' = "returned"
    /\ result' = [status |-> "returned", error |-> "none", sector |-> -1,
                  passes_completed |-> IF method = "dod" THEN 3 ELSE 1,
                  verified |-> "true"]
    /\ UNCHANGED <<envvars, dispvars, auxvars, treevars, iovars, devvars, path, ents, fsize, fcontent, size,
                   remaining, orig_hash, verification_result, final_path>>

\* if os.path.exists(final_path): raise ...; else return the result dict
WfCheckGone ==
    /\ fpc = "check"
    /\ IF ents[final_path] # "none"
       THEN fpc' = "raised" /\ result' = Raised("DeleteFailed")
       ELSE /\ fpc' = "returned"
            /\ result' = [status |-> "returned", error |-> "none", sector |-> -1,
                          passes_completed |-> IF method = "dod" THEN 3 ELSE 1,
                          verified |-> "true"]
    /\ UNCHANGED <<envvars, dispvars, auxvars, treevars, iovars, devvars, path, ents, fsize, fcontent, size,
                   remaining, orig_hash, verification_result, final_path>>

NextFile == WfValidate \/ WfHash \/ OvStart \/ OvOpen \/ OvWrite \/ OvSync
            \/ OvVerify \/ OvSlack \/ OvRename \/ WfRename \/ WfRemove
            \/ WfCheckGone

(***************************************************************************)
(* wipe_folder, wipe_drive (filesystem path) and the CLI                   *)
(***************************************************************************)
\* the files os.walk lists in directory d, as <<directory, name>> paths
DirFiles(tr, ex, d) ==
    IF ex[d]
    THEN SelectSeq([i \in 1..Len(NameOrder) |-> <<d, NameOrder[i]>>],
                   LAMBDA p : tr[p[1]][p[2]] # "none")
    ELSE <<>>
\* os.walk(path, topdown=False): directories are yielded children first
BottomUpFiles(tr, ex) ==
    DirFiles(tr, ex, "b") \o DirFiles(tr, ex, "a") \o DirFiles(tr, ex, "root")
\* os.walk(path): directories are yielded parents first
TopDownFiles(tr, ex) ==
    DirFiles(tr, ex, "root") \o DirFiles(tr, ex, "a") \o DirFiles(tr, ex, "b")
\* BottomUpDirs for a walk that yields parents first
BottomUpDirs_TopDown(ex) == SelectSeq(<<"a", "b">>, LAMBDA d : ex[d])
\* the dirs lists of os.walk(path, topdown=False) in the order yielded:
\* b (listed when a is yielded), then a (listed when root is yielded)
BottomUpDirs(ex) == SelectSeq(<<"b", "a">>, LAMBDA d : ex[d])

\* wipe_file(file_path) as one step on the containing directory e: the
\* directory afterwards, whether the call returned (or raised) and whether it
\* wrote, renamed or unlinked anything
WipeFileOutcomes(e, n, m, plat) ==
    LET early == {[ents |-> e, returned |-> FALSE, mutated |-> FALSE]}
        midpass == IF e[n] = "data" /\ m \in Methods
                   THEN {[ents |-> e, returned |-> FALSE, mutated |-> TRUE]}
                   ELSE {}
        \* the directory after _secure_overwrite_file
        overwritten ==
           IF e[n] = "data"
           THEN IF m \in Methods
                THEN {SecureRenameFile(e, n, names, failAt, plat).ents :
                         names \in RenameChoices, failAt \in FailChoices}
                ELSE {}
           ELSE {e}
        removal ==
           {LET r == SecureRenameFile(e1, n, names, failAt, plat)
                e2 == ForceRemoveFile(r.ents, r.current_path, ok)
            IN [ents |-> e2, returned |-> (e2[r.current_path] = "none"),
                mutated |-> (e[n] = "data" \/ e2 # e)] :
               e1 \in overwritten, names \in RenameChoices,
               failAt \in FailChoices, ok \in BOOLEAN}
    IN IF e[n] = "none" THEN early ELSE early \cup midpass \cup removal

\* _force_remove_file_enhanced(p): like _force_remove_file, more attempts
ForceRemoveFileEnhanced(e, p, ok) ==
    IF e[p] = "none" THEN e
    ELSE IF ok THEN [e EXCEPT ![p] = "none"]
    ELSE e

\* _wipe_file_enhanced(path, method, verify) as one step: the directory
\* afterwards, the status of the dict returned, whether it has an error, and
\* the number of overwrite passes the call wrote to the file.
\* The call _secure_overwrite_file(path, passes=1, pattern=...) raises
\* TypeError before anything is written: _secure_overwrite_file has no such
\* parameters.  For a method other than quick, nist and dod no call is made.
WipeFileEnhancedOutcomes(e, n, m, v) ==
    IF e[n] = "none"
    THEN {[ents |-> e, status |-> "not_found", error |-> FALSE, passes |-> 0]}
    ELSE (IF v THEN {[ents |-> e, status |-> "failed", error |-> TRUE,
                      passes |-> 0]}
               ELSE {})
         \cup {[ents |-> ForceRemoveFileEnhanced(e, n, ok),
                status |-> IF m \in Methods THEN "removed_without_overwrite"
                                            ELSE "wiped_and_removed",
                error |-> (m \in Methods), passes |-> 0] : ok \in BOOLEAN}

\* _force_remove_dir(d) / _force_remove_dir_enhanced(d): rmtree and the
\* fallbacks remove the directory with everything in it ("all"), only what
\* is in it ("contents"), or nothing ("none")
RemoveOutcomes == {"all", "contents", "none"}
ForceRemoveDirTree(tr, ex, d, outcome) ==
    IF ~ex[d] \/ outcome = "none" THEN tr
    ELSE [x \in TreeDirs |->
            IF x = d \/ x \in SubDirs(d) THEN [n \in Names |-> "none"] ELSE tr[x]]
ForceRemoveDirExists(ex, d, outcome) ==
    IF ~ex[d] \/ outcome = "none" THEN ex
    ELSE [x \in TreeDirs |->
            IF x \in SubDirs(d) THEN FALSE
            ELSE IF x = d THEN outcome # "all"
            ELSE ex[x]]

\* what a directory of the tree holds at the start
DirContents ==
    { [n \in Names |-> "none"],
      [n \in Names |-> IF n = "report.txt" THEN "data" ELSE "none"],
      [n \in Names |-> IF n = "report.txt" THEN "empty"
                       ELSE IF n = "0123456789abcdef" THEN "data" ELSE "none"] }
TreeShapes ==
    {ex \in [TreeDirs -> BOOLEAN] :
        ex["root"] /\ (ex["b"] => ex["a"])}

\* the number of files in a tree
FileCount(tr) ==
    Cardinality({p \in TreeDirs \X Names : tr[p[1]][p[2]] # "none"})

InitTree ==
    /\ entry \in {"wipe_folder", "wipe_drive", "main"}
    /\ platform \in Platforms
    /\ is_admin \in (IF entry = "wipe_drive" THEN BOOLEAN ELSE {FALSE})
    /\ method \in {"quick", "other"}
    /\ verify \in (IF entry = "wipe_drive" THEN BOOLEAN ELSE {TRUE})
    /\ target \in Targets(platform)
    /\ drive_type \in (IF entry = "wipe_drive" THEN {"usb_flash", "hdd"}
                                               ELSE {"unknown"})
    /\ raw_requested \in (IF entry = "wipe_drive" THEN BOOLEAN ELSE {FALSE})
    /\ argkind \in (IF entry = "main" THEN {"file", "dir", "none"} ELSE {"dir"})
    /\ route = "none" /\ method_used = "none" /\ exit_code = -1
    /\ texists \in TreeShapes
    /\ tree \in [TreeDirs -> DirContents]
    /\ \A d \in TreeDirs : ~texists[d] => tree[d] = [n \in Names |-> "none"]
    /\ FileCount(tree) <= MaxTreeFiles
    /\ argkind = "file" => tree["root"]["report.txt"] # "none"
    /\ argkind = "none" => FileCount(tree) = 0
    /\ tpc = "call"
    /\ flist = <<>> /\ fi = 0 /\ dlist = <<>> /\ di = 0 /\ dprocessed = {}
    /\ clist = <<>> /\ ci = 0 /\ results = <<>> /\ failures = {}
    /\ mutated = FALSE
    /\ IoIdle /\ DevIdle /\ FileIdle
    /\ CallIdle /\ FlashIdle /\ EnumIdle /\ LogIdle /\ GuiIdle
    /\ result = NoResult

treeframe == <<envvars, iovars, devvars, filevars, auxvars>>

\* the exit status of a process that argparse ends with parser.error(), and
\* of one that ends with an uncaught exception
ArgparseErrorStatus == 2
UncaughtExceptionStatus == 1

\* main up to the call of the wiper: parse_args() rejects a method outside
\* choices; isfile(target) -> wipe_file, isdir(target) -> wipe_folder,
\* otherwise p.error(); no other test is made on the target
CliDispatch ==
    /\ entry = "main" /\ tpc = "call"
    /\ IF method \notin Methods \/ argkind = "none"
       THEN tpc' = "exited" /\ exit_code' = ArgparseErrorStatus
       ELSE /\ tpc' = (IF argkind = "file" THEN "file" ELSE "folder")
            /\ UNCHANGED exit_code
    /\ UNCHANGED <<treeframe, raw_requested, route, method_used, argkind,
                   target, drive_type, tree, texists, flist, fi,
                   dlist, di, dprocessed, clist, ci, results, failures,
                   mutated, result>>

\* main: result = wipe_file(target, ...); the target is the file report.txt
\* of the directory
CliWipeFile ==
    /\ entry = "main" /\ tpc = "file"
    /\ \E o \in WipeFileOutcomes(tree["root"], "report.txt", method, platform) :
          /\ tree' = [tree EXCEPT !["root"] = o.ents]
          /\ mutated' = (mutated \/ o.mutated)
          /\ IF o.returned
             THEN tpc' = "returned" /\ result' = [NoResult EXCEPT !.status = "returned"]
             ELSE tpc' = "raised" /\ result' = Raised("WipeFailed")
    /\ UNCHANGED <<treeframe, dispvars, target, drive_type, texists, flist, fi,
                   dlist, di, dprocessed, clist, ci, results, failures>>

\* main after the wiper: the payload is printed and main returns, or the
\* WipeError of the wiper, which main does not catch, ends the process
CliExit ==
    /\ entry = "main" /\ tpc \in {"returned", "raised"}
    /\ tpc' = "exited"
    /\ exit_code' = (IF tpc = "raised" THEN UncaughtExceptionStatus ELSE 0)
    /\ UNCHANGED <<treeframe, raw_requested, route, method_used, argkind,
                   target, drive_type, tree, texists, flist, fi,
                   dlist, di, dprocessed, clist, ci, results, failures,
                   mutated, result>>

\* wipe_folder up to the first walk: exists / isdir / os.listdir checks
FolderValidate ==
    /\ \/ entry = "wipe_folder" /\ tpc = "call"
       \/ entry = "main" /\ tpc = "folder"
    /\ \/ /\ flist' = BottomUpFiles(tree, texists)
          /\ fi' = 1
          /\ tpc' = "f_files"
          /\ UNCHANGED result
       \/ /\ tpc' = "raised" /\ result' = Raised("NotAccessible")
          /\ UNCHANGED <<flist, fi>>
    /\ UNCHANGED <<treeframe, dispvars, target, drive_type, tree, texists, dlist, di,
                   dprocessed, clist, ci, results, failures, mutated>>

\* FolderWipeFile without the try/except around wipe_file: the first failure
\* ends the walk
FolderWipeFile_AbortOnError ==
    /\ tpc = "f_files"
    /\ fi <= Len(flist)
    /\ LET d == flist[fi][1]
           n == flist[fi][2]
       IN \E o \in WipeFileOutcomes(tree[d], n, method, platform) :
             /\ tree' = [tree EXCEPT ![d] = o.ents]
             /\ results' = Append(results,
                    [path |-> flist[fi],
                     status |-> IF o.returned THEN "wiped" ELSE "none",
                     error |-> ~o.returned])
             /\ failures' = IF o.returned THEN failures
                            ELSE failures \cup {flist[fi]}
             /\ mutated' = (mutated \/ o.mutated)
             /\ fi' = IF o.returned THEN fi + 1 ELSE Len(flist) + 1
    /\ UNCHANGED <<treeframe, dispvars, tpc, target, drive_type, texists, flist, dlist,
                   di, dprocessed, clist, ci, result>>

\* first pass of wipe_folder: wipe_file on the next file of the walk
FolderWipeFile ==
    /\ tpc = "f_files"
    /\ fi <= Len(flist)
    /\ LET d == flist[fi][1]
           n == flist[fi][2]
       IN \E o \in WipeFileOutcomes(tree[d], n, method, platform) :
             /\ tree' = [tree EXCEPT ![d] = o.ents]
             /\ results' = Append(results,
                    [path |-> flist[fi],
                     status |-> IF o.returned THEN "wiped" ELSE "none",
                     error |-> ~o.returned])
             /\ failures' = IF o.returned THEN failures
                            ELSE failures \cup {flist[fi]}
             /\ mutated' = (mutated \/ o.mutated)
    /\ fi' = fi + 1
    /\ UNCHANGED <<treeframe, dispvars, tpc, target, drive_type, texists, flist, dlist,
                   di, dprocessed, clist, ci, result>>

\* second pass of wipe_folder: the walk that lists the subdirectories
FolderDirsBegin ==
    /\ tpc = "f_files"
    /\ fi > Len(flist)
    /\ dlist' = BottomUpDirs(texists)
    /\ di' = 1
    /\ tpc' = "f_dirs"
    /\ UNCHANGED <<treeframe, dispvars, target, drive_type, tree, texists, flist, fi,
                   dprocessed, clist, ci, results, failures, mutated, result>>

\* second pass of wipe_folder: _force_remove_dir on the next subdirectory
FolderRemoveDir ==
    /\ tpc = "f_dirs"
    /\ di <= Len(dlist)
    /\ \E outcome \in RemoveOutcomes :
          /\ tree' = ForceRemoveDirTree(tree, texists, dlist[di], outcome)
          /\ texists' = ForceRemoveDirExists(texists, dlist[di], outcome)
    /\ mutated' = (mutated \/ tree' # tree \/ texists' # texists)
    /\ dprocessed' = dprocessed \cup {dlist[di]}
    /\ di' = di + 1
    /\ UNCHANGED <<treeframe, dispvars, tpc, target, drive_type, flist, fi, dlist, clist,
                   ci, results, failures, result>>

\* _force_remove_dir(path), the os.path.exists(path) test whose WipeError the
\* except clause turns into an entry of results, and return results
FolderRemoveRoot ==
    /\ tpc = "f_dirs"
    /\ di > Len(dlist)
    /\ \E outcome \in RemoveOutcomes :
          /\ tree' = ForceRemoveDirTree(tree, texists, "root", outcome)
          /\ texists' = ForceRemoveDirExists(texists, "root", outcome)
    /\ mutated' = (mutated \/ tree' # tree \/ texists' # texists)
    /\ dprocessed' = dprocessed \cup {"root"}
    /\ results' = IF texists'["root"]
                  THEN Append(results, [path |-> <<"root", ".">>,
                                        status |-> "none", error |-> TRUE])
                  ELSE results
    /\ tpc' = "returned"
    /\ result' = [NoResult EXCEPT !.status = "returned"]
    /\ UNCHANGED <<treeframe, dispvars, target, drive_type, flist, fi, dlist, di, clist,
                   ci, failures>>

\* str.upper() on the targets
Upper(t) == IF t = "c:\\" THEN "C:\\" ELSE t
\* the safety check of wipe_drive
IsSystemDrive(t, plat) ==
    IF plat = "Windows" THEN Upper(t) \in {Upper(x) : x \in {"C:\\", "D:\\"}}
    ELSE t \in {"/", "/boot", "/home"}

\* get_recommended_method(drive_path, user_method)['recommended_method']
RecommendedMethod(dt, m) ==
    IF dt = "usb_flash" THEN "usb_flash_enhanced"
    ELSE IF dt = "ssd" /\ m = "dod" THEN "nist"
    ELSE m

\* wipe_drive up to the wiping walk: the safety check, the drive type, the
\* walk that counts the files
DriveGuard ==
    /\ entry = "wipe_drive" /\ tpc = "call"
    /\ IF IsSystemDrive(target, platform)
       THEN /\ tpc' = "raised" /\ result' = Raised("BlockedTarget")
            /\ UNCHANGED <<flist, fi, route, method_used>>
       ELSE IF drive_type = "usb_flash"
       THEN \* return _usb_flash_secure_wipe(drive_path, method, progress_callback)
            /\ tpc' = "flash"
            /\ route' = "flash" /\ method_used' = method
            /\ UNCHANGED <<flist, fi, result>>
       ELSE /\ flist' = TopDownFiles(tree, texists)
            /\ fi' = 1
            /\ tpc' = "d_files"
            /\ route' = "filesystem" /\ method_used' = method
            /\ UNCHANGED result
    /\ UNCHANGED <<treeframe, raw_requested, argkind, exit_code, target, drive_type, tree, texists, dlist, di,
                   dprocessed, clist, ci, results, failures, mutated>>

\* the wiping walk of wipe_drive: _wipe_file_enhanced on the next file
DriveWipeFile ==
    /\ tpc = "d_files"
    /\ fi <= Len(flist)
    /\ LET d == flist[fi][1]
           n == flist[fi][2]
       IN \E o \in WipeFileEnhancedOutcomes(tree[d], n, method, verify) :
             /\ tree' = [tree EXCEPT ![d] = o.ents]
             /\ results' = Append(results,
                    [path |-> flist[fi], status |-> o.status, error |-> o.error,
                     passes |-> o.passes])
             /\ failures' = IF o.error THEN failures \cup {flist[fi]}
                            ELSE failures
             /\ mutated' = (mutated \/ o.ents # tree[d])
    /\ fi' = fi + 1
    /\ UNCHANGED <<treeframe, dispvars, tpc, target, drive_type, texists, flist, dlist,
                   di, dprocessed, clist, ci, result>>

\* DriveDirsBegin with a walk that also hands the top directory to the
\* removal step
DriveDirsBegin_WithRoot ==
    /\ tpc = "d_files"
    /\ fi > Len(flist)
    /\ dlist' = BottomUpDirs(texists) \o <<"root">>
    /\ di' = 1
    /\ tpc' = "d_dirs"
    /\ UNCHANGED <<treeframe, dispvars, target, drive_type, tree, texists, flist, fi,
                   dprocessed, clist, ci, results, failures, mutated, result>>

\* the directory walk of wipe_drive begins
DriveDirsBegin ==
    /\ tpc = "d_files"
    /\ fi > Len(flist)
    /\ dlist' = BottomUpDirs(texists)
    /\ di' = 1
    /\ tpc' = "d_dirs"
    /\ UNCHANGED <<treeframe, dispvars, target, drive_type, tree, texists, flist, fi,
                   dprocessed, clist, ci, results, failures, mutated, result>>

\* _force_remove_dir_enhanced on the next subdirectory (it never raises)
DriveRemoveDir ==
    /\ tpc = "d_dirs"
    /\ di <= Len(dlist)
    /\ \E outcome \in RemoveOutcomes :
          /\ tree' = ForceRemoveDirTree(tree, texists, dlist[di], outcome)
          /\ texists' = ForceRemoveDirExists(texists, dlist[di], outcome)
    /\ mutated' = (mutated \/ tree' # tree \/ texists' # texists)
    /\ dprocessed' = dprocessed \cup {dlist[di]}
    /\ di' = di + 1
    /\ UNCHANGED <<treeframe, dispvars, tpc, target, drive_type, flist, fi, dlist, clist,
                   ci, results, failures, result>>

\* _cleanup_remaining_files begins: os.walk(drive_path) over what is left
DriveCleanupBegin ==
    /\ tpc = "d_dirs"
    /\ di > Len(dlist)
    /\ clist' = TopDownFiles(tree, texists)
    /\ ci' = 1
    /\ tpc' = "d_cleanup"
    /\ UNCHANGED <<treeframe, dispvars, target, drive_type, tree, texists, flist, fi,
                   dlist, di, dprocessed, results, failures, mutated, result>>

\* _cleanup_remaining_files: the next file that still exists is removed by
\* _force_remove_file_enhanced and a cleanup_removed entry is appended
DriveCleanupFile ==
    /\ tpc = "d_cleanup"
    /\ ci <= Len(clist)
    /\ LET d == clist[ci][1]
           n == clist[ci][2]
       IN \E ok \in BOOLEAN :
             /\ tree' = [tree EXCEPT ![d] = ForceRemoveFileEnhanced(tree[d], n, ok)]
             /\ mutated' = (mutated \/ tree' # tree)
    /\ results' = Append(results, [path |-> clist[ci],
                                   status |-> "cleanup_removed", error |-> FALSE])
    /\ ci' = ci + 1
    /\ UNCHANGED <<treeframe, dispvars, tpc, target, drive_type, texists, flist, fi, dlist,
                   di, dprocessed, clist, failures, result>>

\* wipe_drive returns its dict
DriveReturn ==
    /\ tpc = "d_cleanup"
    /\ ci > Len(clist)
    /\ tpc' = "returned"
    /\ result' = [NoResult EXCEPT !.status = "returned"]
    /\ UNCHANGED <<treeframe, dispvars, target, drive_type, tree, texists, flist, fi,
                   dlist, di, dprocessed, clist, ci, results, failures, mutated>>

(***************************************************************************)
(* _usb_flash_secure_wipe                                                  *)
(***************************************************************************)
flashframe == <<entry, platform, is_admin, method, verify, iovars, devvars,
                filevars, treevars, dispvars, callvars, enumvars, logvars,
                guivars, drive_path, backing>>

\* platform.system() as _format_drive and _try_controller_secure_erase see
\* it: Windows, Linux, or a platform neither of them supports
FlashPlatforms == Platforms \cup {"Darwin"}
\* the number of overwrite passes of step 3 and their patterns
flash_passes == 5
FlashPatterns == <<"zero", "one", "random", "random", "random">>
\* the helper calls of the filesystem-level fallback in program order, with
\* the pattern and pass number each is given
FlashSteps ==
    << [helper |-> "drive_fill", pattern |-> "random", pass |-> 0],
       [helper |-> "format_drive", pattern |-> "none", pass |-> 0] >>
    \o [k \in 1..flash_passes |->
          [helper |-> "overwrite_pass", pattern |-> FlashPatterns[k], pass |-> k]]
    \o << [helper |-> "drive_fill", pattern |-> "random", pass |-> 0],
          [helper |-> "format_drive", pattern |-> "none", pass |-> 0],
          [helper |-> "controller_secure_erase", pattern |-> "none", pass |-> 0] >>

\* what a helper can return: the status of its record, whether the step
\* failed to do its work, and the number of temporary files it created that
\* are still on the volume when it returns.  No helper raises: each has its
\* body in try/except.
\*   _fill_drive_completely: success after os.remove(fill_file); error on any
\*                  exception: before wipe_fill_temp.dat is created
\*                  (disk_usage, open), or after, and then the file stays
\*   _format_drive: Windows success / partial (quick format failed) / error,
\*                  Linux error (mkfs.exfat is handed FormatDevice, which
\*                  is no device node), skipped on any other platform
\*   _overwrite_drive_pattern: an exception while a fill file is opened or
\*                  written only breaks the loop and the record still says
\*                  success; a file whose write failed is not in
\*                  files_created and is not removed; error when the free
\*                  space cannot be read
\*   _try_controller_secure_erase: Windows success / not_available / error,
\*                  not_available elsewhere
StepOutcomes(helper, plat) ==
    IF helper = "drive_fill"
    THEN {[status |-> "success", failed |-> FALSE, temp_left |-> 0],
          [status |-> "error", failed |-> TRUE, temp_left |-> 0],
          [status |-> "error", failed |-> TRUE, temp_left |-> 1]}
    ELSE IF helper = "format_drive"
    THEN IF plat = "Windows"
         THEN {[status |-> "success", failed |-> FALSE, temp_left |-> 0],
               [status |-> "partial", failed |-> TRUE, temp_left |-> 0],
               [status |-> "error", failed |-> TRUE, temp_left |-> 0]}
         ELSE IF plat = "Linux"
         THEN {[status |-> "error", failed |-> TRUE, temp_left |-> 0]}
         ELSE {[status |-> "skipped", failed |-> TRUE, temp_left |-> 0]}
    ELSE IF helper = "overwrite_pass"
    THEN {[status |-> "success", failed |-> FALSE, temp_left |-> 0],
          [status |-> "success", failed |-> TRUE, temp_left |-> 0],
          [status |-> "success", failed |-> TRUE, temp_left |-> 1],
          [status |-> "error", failed |-> TRUE, temp_left |-> 0]}
    ELSE IF plat = "Windows"
         THEN {[status |-> "success", failed |-> FALSE, temp_left |-> 0],
               [status |-> "not_available", failed |-> FALSE, temp_left |-> 0],
               [status |-> "error", failed |-> TRUE, temp_left |-> 0]}
         ELSE {[status |-> "not_available", failed |-> FALSE, temp_left |-> 0]}

\* the volumes a flash wipe is asked for: the mount path and the device node
\* the volume is mounted from (a disk on Windows, where wmic reports the
\* DiskIndex of the partition; the SOURCE column of findmnt elsewhere)
FlashVolumes(plat) ==
    IF plat = "Windows"
    THEN {[drive_path |-> p, backing |-> d] :
             p \in {"E:\\", "K:\\"}, d \in {"PhysicalDrive1", "PhysicalDrive2"}}
    ELSE IF plat = "Linux"
    THEN {[drive_path |-> "/mnt/usb", backing |-> d] :
             d \in {"/dev/sdb1", "/dev/mmcblk0p1", "sshfs"}}
    ELSE {[drive_path |-> "/Volumes/USB", backing |-> "/dev/disk2s1"]}
\* the device nodes that exist and can be opened for writing
DeviceNodes(plat) ==
    IF plat = "Windows" THEN {"PhysicalDrive0", "PhysicalDrive1", "PhysicalDrive2"}
    ELSE IF plat = "Linux"
    THEN {"/dev/sda", "/dev/sdb", "/dev/sdb1", "/dev/mmcblk0", "/dev/mmcblk0p1"}
    ELSE {"/dev/disk2", "/dev/disk2s1"}
\* the disk a device node is a partition of (a disk is its own disk)
DiskOf(d) ==
    IF d = "/dev/sdb1" THEN "/dev/sdb"
    ELSE IF d = "/dev/mmcblk0p1" THEN "/dev/mmcblk0"
    ELSE IF d = "/dev/disk2s1" THEN "/dev/disk2"
    ELSE d
\* what the query for the device answers: wmic prints a DiskIndex line or
\* findmnt returns 0 and prints SOURCE ("found"), they print nothing
\* useful or return nonzero ("empty"), or subprocess.run raises ("raise",
\* the only answer where there is no findmnt)
Lookups(plat) ==
    IF plat \in Platforms THEN {"found", "empty", "raise"} ELSE {"raise"}
\* drive_letter.upper().rstrip(':\\')
DriveLetterOf(p) == IF p = "E:\\" THEN "E" ELSE IF p = "K:\\" THEN "K" ELSE p
\* disk_mappings of the Windows branch
disk_mappings ==
    [l \in {"C", "D", "E", "F", "G", "H", "I", "J"} |->
        IF l = "C" THEN 0 ELSE IF l = "D" THEN 1 ELSE IF l = "E" THEN 2
        ELSE IF l = "F" THEN 3 ELSE IF l = "G" THEN 4 ELSE IF l = "H" THEN 5
        ELSE IF l = "I" THEN 6 ELSE 7]
\* f'\\\\.\\PhysicalDrive{n}', written without the \\.\ prefix
PhysicalDrive(n) == "PhysicalDrive" \o ToString(n)
\* re.sub(r'\d+$', '', device): the digits at the end are cut off
StripTrailingDigits(d) ==
    IF d = "/dev/sdb1" THEN "/dev/sdb"
    ELSE IF d = "/dev/mmcblk0p1" THEN "/dev/mmcblk0p"
    ELSE IF d = "/dev/disk2s1" THEN "/dev/disk2s"
    ELSE d
\* '/dev/' in device
IsDevPath(d) == d \in {"/dev/sdb1", "/dev/mmcblk0p1", "/dev/disk2s1"}
\* common_devices[0]
common_device == "/dev/sda"
\* _get_physical_drive_path(drive_letter): the path returned (ok), or the
\* WipeError raised
GetPhysicalDrivePath(plat, p, source, lookup) ==
    IF lookup = "raise" THEN [ok |-> FALSE, device |-> "none"]
    ELSE IF plat = "Windows"
    THEN IF lookup = "found" THEN [ok |-> TRUE, device |-> source]
         ELSE IF DriveLetterOf(p) \in DOMAIN disk_mappings
         THEN [ok |-> TRUE,
               device |-> PhysicalDrive(disk_mappings[DriveLetterOf(p)])]
         ELSE [ok |-> FALSE, device |-> "none"]
    ELSE IF lookup = "found" /\ IsDevPath(source)
         THEN [ok |-> TRUE, device |-> StripTrailingDigits(source)]
         ELSE [ok |-> TRUE, device |-> common_device]
\* the name _format_drive hands to format / mkfs.exfat: the drive letter of
\* the volume on Windows, f"/dev/sd{drive_path[0].lower()}1" on Linux
FormatDevice(plat, p) ==
    IF plat = "Windows" THEN DriveLetterOf(p) \o ":" ELSE "/dev/sd/1"

InitFlash ==
    /\ entry = "_usb_flash_secure_wipe"
    /\ platform \in FlashPlatforms
    /\ is_admin \in BOOLEAN
    /\ method \in Methods
    /\ verify = TRUE
    /\ flpc = "admin" /\ has_admin = FALSE /\ fl_results = <<>> /\ fl_i = 0
    /\ fl_failed = 0
    /\ \E v \in FlashVolumes(platform) :
          drive_path = v.drive_path /\ backing = v.backing
    /\ physical_device = "none" /\ raw_written = {}
    /\ IoIdle /\ DevIdle /\ FileIdle /\ TreeIdle /\ DispIdle
    /\ CallIdle /\ EnumIdle /\ LogIdle /\ GuiIdle
    /\ result = NoResult

\* has_admin = _is_admin()
FlashAdminCheck ==
    /\ flpc = "admin"
    /\ has_admin' = is_admin
    /\ IF is_admin THEN flpc' = "raw" /\ UNCHANGED fl_i
                   ELSE flpc' = "steps" /\ fl_i' = 1
    /\ UNCHANGED <<flashframe, fl_results, fl_failed, physical_device,
                   raw_written, result>>

\* the raw attempt: _get_physical_drive_path raises and the except clause
\* falls through to the filesystem-level fallback; or it returns a device
\* path and _raw_device_wipe either wipes that device and the raw outcome is
\* returned, or raises (before or after it has written to the device) and
\* the fallback follows
FlashRawWipe ==
    /\ flpc = "raw"
    /\ \E lookup \in Lookups(platform) :
          LET r == GetPhysicalDrivePath(platform, drive_path, backing, lookup)
          IN IF ~r.ok
             THEN /\ flpc' = "steps" /\ fl_i' = 1
                  /\ UNCHANGED <<physical_device, raw_written, result>>
             ELSE /\ physical_device' = r.device
                  /\ \/ /\ r.device \in DeviceNodes(platform)
                        /\ raw_written' = {r.device}
                        /\ flpc' = "returned"
                        /\ result' = [NoResult EXCEPT !.status = "returned",
                               !.passes_completed = Len(RawPatterns(method))]
                        /\ UNCHANGED fl_i
                     \/ /\ raw_written' \in
                              {{}, {r.device} \cap DeviceNodes(platform)}
                        /\ flpc' = "steps" /\ fl_i' = 1
                        /\ UNCHANGED result
    /\ UNCHANGED <<flashframe, has_admin, fl_results, fl_failed>>

\* results.append(<helper>(drive_path, ...)) for the next step of the
\* fallback; the controller record is a non-empty dict, so it is appended too
FlashStep ==
    /\ flpc = "steps"
    /\ fl_i <= Len(FlashSteps)
    /\ \E o \in StepOutcomes(FlashSteps[fl_i].helper, platform) :
          /\ (o.failed /\ o.status # "skipped") => fl_failed < MaxStepFailures
          /\ fl_results' = Append(fl_results,
                 [step |-> FlashSteps[fl_i].helper,
                  pattern |-> FlashSteps[fl_i].pattern,
                  pass |-> FlashSteps[fl_i].pass,
                  status |-> o.status, failed |-> o.failed,
                  temp_left |-> o.temp_left])
          /\ fl_failed' = fl_failed + (IF o.failed /\ o.status # "skipped" THEN 1 ELSE 0)
    /\ fl_i' = fl_i + 1
    /\ UNCHANGED <<flashframe, flpc, has_admin, physical_device, raw_written,
                   result>>

\* return {'method': 'usb_flash_enhanced_filesystem', 'passes_completed': 5,
\* 'results': results, 'status': 'success', ...}
FlashReturn ==
    /\ flpc = "steps"
    /\ fl_i > Len(FlashSteps)
    /\ flpc' = "returned"
    /\ result' = [NoResult EXCEPT !.status = "returned",
                                  !.passes_completed = flash_passes]
    /\ UNCHANGED <<flashframe, has_admin, fl_results, fl_i, fl_failed,
                   physical_device, raw_written>>

(***************************************************************************)
(* get_available_drives                                                    *)
(***************************************************************************)
enumframe == <<envvars, iovars, devvars, filevars, treevars, dispvars,
               callvars, flashvars, logvars, guivars>>

\* a drive letter (Windows) or an entry of the mount table (Linux): whether
\* the path exists and what psutil.disk_usage does on it
VolumeStates(plat) ==
    IF plat = "Windows"
    THEN {[exists |-> FALSE, usage |-> "fail"],
          [exists |-> TRUE, usage |-> "ok"],
          [exists |-> TRUE, usage |-> "fail"]}
    ELSE {[exists |-> TRUE, usage |-> "ok"],
          [exists |-> TRUE, usage |-> "fail"]}
\* the numbers psutil.disk_usage returns for a volume
UsageOf(i) == [total |-> 100 * i, free |-> 40 * i, used |-> 60 * i]
\* the entry of drives for volume i with the usage u
DriveEntry(i, u) ==
    [path |-> i, total |-> u.total, free |-> u.free, used |-> u.used]
ZeroUsage == [total |-> 0, free |-> 0, used |-> 0]

InitEnum ==
    /\ entry = "get_available_drives"
    /\ platform \in Platforms
    /\ is_admin = FALSE /\ method = "quick" /\ verify = TRUE
    /\ \E n \in 0..MaxVolumes : volumes \in [1..n -> VolumeStates(platform)]
    /\ epc = "call" /\ ei = 0 /\ drives = <<>>
    /\ IoIdle /\ DevIdle /\ FileIdle /\ TreeIdle /\ DispIdle
    /\ CallIdle /\ FlashIdle /\ LogIdle /\ GuiIdle
    /\ result = NoResult

\* the start of the loop: string.ascii_uppercase on Windows; elsewhere
\* psutil.disk_partitions(), whose exception the outer except clause turns
\* into WipeError("Failed to enumerate drives")
EnumBegin ==
    /\ epc = "call"
    /\ \/ epc' = "loop" /\ ei' = 1 /\ UNCHANGED result
       \/ /\ platform # "Windows"
          /\ epc' = "raised" /\ result' = Raised("EnumerationFailed")
          /\ UNCHANGED ei
    /\ UNCHANGED <<enumframe, volumes, drives>>

\* one iteration of `for letter in string.ascii_uppercase'
EnumLetter ==
    /\ epc = "loop" /\ platform = "Windows"
    /\ ei <= Len(volumes)
    /\ drives' = IF ~volumes[ei].exists THEN drives
                 ELSE IF volumes[ei].usage = "ok"
                 THEN Append(drives, DriveEntry(ei, UsageOf(ei)))
                 ELSE Append(drives, DriveEntry(ei, ZeroUsage))
    /\ ei' = ei + 1
    /\ UNCHANGED <<enumframe, epc, volumes, result>>

\* one iteration of `for partition in partitions': when disk_usage raises,
\* the except clause is `pass'
EnumPartition ==
    /\ epc = "loop" /\ platform # "Windows"
    /\ ei <= Len(volumes)
    /\ drives' = IF volumes[ei].usage = "ok"
                 THEN Append(drives, DriveEntry(ei, UsageOf(ei)))
                 ELSE drives
    /\ ei' = ei + 1
    /\ UNCHANGED <<enumframe, epc, volumes, result>>

\* return drives
EnumReturn ==
    /\ epc = "loop"
    /\ ei > Len(volumes)
    /\ epc' = "returned"
    /\ result' = [NoResult EXCEPT !.status = "returned"]
    /\ UNCHANGED <<enumframe, volumes, ei, drives>>

(***************************************************************************)
(* Calls of the engine from several threads                                *)
(***************************************************************************)
callframe == <<envvars, iovars, devvars, filevars, treevars, dispvars,
               flashvars, enumvars, logvars, guivars, result>>

InitCalls ==
    /\ entry = "engine"
    /\ platform \in Platforms
    /\ is_admin = FALSE /\ method = "quick" /\ verify = TRUE
    /\ IoIdle /\ DevIdle /\ FileIdle /\ TreeIdle /\ DispIdle
    /\ CallIdle /\ FlashIdle /\ EnumIdle /\ LogIdle /\ GuiIdle
    /\ result = NoResult

\* a thread calls wipe_file, wipe_folder or wipe_drive: the function body
\* starts at once; none of the three looks at a lock, a flag or any other
\* record of a wipe in progress
CallBegin(c) ==
    /\ entry = "engine"
    /\ calls[c].pc = "idle"
    /\ \E e \in CallEntries, t \in CallTargets :
          calls' = [calls EXCEPT ![c] =
                       [pc |-> "running", entry |-> e, target |-> t,
                        overlapped |-> (\E o \in Callers \ {c} :
                                           calls[o].pc = "running"),
                        steps |-> 0]]
    /\ UNCHANGED callframe

\* the call makes its next write, rename or unlink on its target
CallStep(c) ==
    /\ calls[c].pc = "running"
    /\ calls[c].steps < MaxCallSteps
    /\ calls' = [calls EXCEPT ![c].steps = @ + 1]
    /\ UNCHANGED callframe

\* the call returns or raises
CallReturn(c) ==
    /\ calls[c].pc = "running"
    /\ calls' = [calls EXCEPT ![c].pc = "returned"]
    /\ UNCHANGED callframe

NextDev == RawAdminCheck \/ RawGetSize \/ RawOpen \/ RawPassBegin
           \/ RawWriteWindows \/ RawWriteLinux \/ RawFlush \/ RawReturn

(***************************************************************************)
(* Properties                                                              *)
(***************************************************************************)
IsPrefix(a, b) == Len(a) <= Len(b) /\ \A i \in 1..Len(a) : a[i] = b[i]

\* the writes of pass p start at offset 0 and each starts where the one
\* before it ended
PassContiguous(p) ==
    \A i \in 1..Len(writes) :
       writes[i][1] = p =>
          IF i > 1 /\ writes[i - 1][1] = p
          THEN writes[i][2] = writes[i - 1][2] + writes[i - 1][3]
          ELSE writes[i][2] = 0
\* the byte offset up to which pass p has written
PassExtent(p) ==
    IF \E i \in 1..Len(writes) : writes[i][1] = p
    THEN LET last == CHOOSE i \in 1..Len(writes) :
                        /\ writes[i][1] = p
                        /\ \A j \in 1..Len(writes) : writes[j][1] = p => j <= i
         IN writes[last][2] + writes[last][3]
    ELSE 0
\* pass p has written every byte offset in 0 .. upto-1
PassCovers(p, upto) == PassContiguous(p) /\ PassExtent(p) >= upto

\* C2: whenever wipe_file returns a result, nothing exists under the original
\* path, nor under the path the removal was attempted on
C2_DeletionInvariant ==
    (entry = "wipe_file" /\ result.status = "returned")
       => (ents[path] = "none" /\ ents[final_path] = "none")
C2_Witness ==
    /\ entry = "wipe_file" /\ result.status = "returned"
    /\ fsize > chunk_size /\ final_path # path

\* the pass program quick -> [R], nist -> [R], dod -> [0x00, 0xFF, R]
PatternProgram(m) ==
    IF m = "dod" THEN <<"zero", "one", "random">> ELSE <<"random">>
FileOverwriteDone ==
    /\ fpc \in {"ov_verify", "ov_slack", "ov_rename", "rename", "remove",
                "check", "returned"}
    /\ size > 0
\* C3: for quick, nist and dod the passes begun by the file overwriter and by
\* the raw device wiper are at every moment a prefix of the pattern program
\* of the method, and the whole program once the overwrite is complete
C3_PatternProgram ==
    method \in Methods =>
       /\ IsPrefix(passlog, PatternProgram(method))
       /\ (entry = "_raw_device_wipe" /\ dpc = "returned")
             => passlog = PatternProgram(method)
       /\ (entry = "wipe_file" /\ FileOverwriteDone)
             => passlog = PatternProgram(method)
C3_Witness ==
    /\ entry = "wipe_file" /\ method = "dod" /\ result.status = "returned"
    /\ passlog = <<"zero", "one", "random">>

C5_DevicePassOrdering ==
    entry = "_raw_device_wipe" =>
       \A i \in 1..Len(writes) :
          /\ writes[i][1] <= synced + 1
          /\ IF i > 1 /\ writes[i - 1][1] = writes[i][1]
             THEN writes[i][2] > writes[i - 1][2]
             ELSE writes[i][2] = 0
C5_Witness ==
    /\ entry = "_raw_device_wipe" /\ dpc = "returned"
    /\ \E i \in 2..Len(writes) : writes[i][1] = 2 /\ writes[i - 1][1] = 2

\* C6: when _raw_device_wipe returns, every pass of the program has written
\* every byte offset in 0 .. total_size-1
C6_RawCoverage ==
    (entry = "_raw_device_wipe" /\ dpc = "returned") =>
       \A p \in 1..Len(RawPatterns(method)) : PassCovers(p, total_size)

\* C7: without privileges _raw_device_wipe raises the privileges error and has
\* neither queried the size nor opened nor written the device
C7_PrivilegesGate ==
    (entry = "_raw_device_wipe" /\ ~is_admin /\ dpc # "admin") =>
       /\ dpc = "raised" /\ result.error = "PrivilegesRequired"
       /\ ~sizeQueried /\ ~devOpened /\ writes = <<>>
C7_Witness ==
    entry = "_raw_device_wipe" /\ ~is_admin /\ dpc = "raised"

\* C8: once a write of a raw device pass has written fewer bytes than
\* requested, the wipe has failed with the device-write error naming a sector
C8_PartialWriteFatal ==
    (entry = "_raw_device_wipe" /\ shorts > 0) =>
       /\ result.status = "raised" /\ result.error = "DeviceWriteFailed"
       /\ result.sector >= 0

\* the system-deny set: '/', '/boot', '/home' or the OS drive letter
InDenySet(t, plat) ==
    IF plat = "Windows" THEN Upper(t) \in WindowsDeny ELSE t \in LinuxDeny
\* C1: a wipe whose target is in the system-deny set performs no write,
\* rename, unlink or rmdir and ends with the BlockedTarget failure
C1_SafetyRefusal ==
    (tpc # "idle" /\ InDenySet(target, platform)) =>
       /\ ~mutated
       /\ tpc \in {"returned", "raised", "flash"} => result.error = "BlockedTarget"

\* a step of wipe_folder in which a directory disappears is made only when
\* wipe_file has been attempted on every file the walk listed and the removal
\* step has been applied to each of its subdirectories that still exists; for
\* the root that is every directory of the tree
C9_RemovalStep ==
    entry \in {"wipe_folder", "main"} =>
       \A d \in TreeDirs :
          (texists[d] /\ ~texists'[d]) =>
             /\ tpc = "f_dirs" /\ fi > Len(flist)
             /\ Len(results) >= Len(flist)
             /\ \A c \in Children(d) : texists[c] => c \in dprocessed
             /\ d = "root" =>
                   \A x \in SubDirs("root") : texists[x] => x \in dprocessed
\* C9: wipe_folder removes no directory before wipe_file has been attempted
\* on every file discovered, removes a directory only after its children
\* have been processed, and removes the root last
C9_FolderOrdering == [][C9_RemovalStep]_vars
C9_Witness ==
    /\ entry = "wipe_folder" /\ tpc = "returned"
    /\ ~texists["root"] /\ dlist = <<"b", "a">> /\ Len(flist) >= 2
    /\ "b" \in dprocessed

\* the records of results with path p, and those the wiping walk appended
RecordsOf(p) == {i \in 1..Len(results) : results[i].path = p}
WalkRecordsOf(p) ==
    {i \in RecordsOf(p) : results[i].status # "cleanup_removed"}
\* every file whose wipe failed has an entry with its path and an error
FailuresRecorded ==
    \A p \in failures : \E i \in RecordsOf(p) : results[i].error
\* C10 as stated: failures are recorded, and when wipe_folder or the
\* filesystem path of wipe_drive returns, results holds exactly one record
\* for every file the wiping walk listed
C10_OneRecordPerFile ==
    (tpc # "idle" /\ argkind = "dir" /\ method \in Methods) =>
       /\ FailuresRecorded
       /\ tpc = "returned" =>
             \A k \in 1..Len(flist) : Cardinality(RecordsOf(flist[k])) = 1
\* C10 amended: failures are recorded, the wiping walk appends exactly one
\* record for every file it lists (and so attempts them all), and only the
\* residual sweep of wipe_drive adds to them
C10_OneWalkRecordPerFile ==
    (tpc # "idle" /\ argkind = "dir" /\ method \in Methods) =>
       /\ FailuresRecorded
       /\ \A k \in 1..Len(flist) :
             Cardinality(WalkRecordsOf(flist[k])) = (IF k < fi THEN 1 ELSE 0)
       /\ tpc = "returned" =>
             /\ fi > Len(flist)
             /\ entry # "wipe_drive" =>
                   \A k \in 1..Len(flist) : Cardinality(RecordsOf(flist[k])) = 1
C10_Witness ==
    /\ entry = "wipe_drive" /\ tpc = "returned" /\ method \in Methods
    /\ Len(flist) = 2 /\ failures # {}
    /\ \E i \in 1..Len(results) : results[i].status = "cleanup_removed"

\* C11: wipe_folder returns normally only when the root directory is gone; a
\* root that still exists after the removal attempt makes the call fail with
\* DirectoryNotRemoved
C11_DirectoryNotRemoved ==
    (entry \in {"wipe_folder", "main"} /\ tpc \in {"returned", "raised"}
        /\ "root" \in dprocessed /\ texists["root"])
       => (tpc = "raised" /\ result.error = "DirectoryNotRemoved")

\* C12: the filesystem path of wipe_drive never removes the mount point: the
\* directory it was called on exists at every moment of the call and after it
C12_MountPointKept ==
    (entry = "wipe_drive" /\ tpc \in {"d_files", "d_dirs", "d_cleanup", "returned"})
       => texists["root"]
C12_Witness ==
    /\ entry = "wipe_drive" /\ tpc = "returned"
    /\ dprocessed = {"a", "b"} /\ ~texists["a"] /\ ~texists["b"]
    /\ Len(clist) > 0 /\ texists["root"]

\* C13: passes_completed in the report wipe_file returns is the number of
\* passes whose write of offsets 0 .. size-1 and whose flush + fsync completed
\* (0 for a zero-byte file)
C13_PassesCompleted ==
    (entry = "wipe_file" /\ result.status = "returned")
       => /\ result.passes_completed = synced
          /\ \A p \in 1..result.passes_completed : PassCovers(p, fsize)

\* C14: when the verifier runs on a file whose passes all completed, the
\* sampling can succeed: a sample of random bytes can meet the unique-byte
\* threshold, and the samples taken are enough to reach the required count
C14_VerificationSatisfiable ==
    (entry = "wipe_file" /\ fpc = "ov_verify" /\ verify /\ size > 0)
       => /\ SampleCanPass(size, method)
          /\ SampleVerified(SamplesTaken(size))

\* C15: when wipe_file returns and the verification record says the
\* verification failed, the file is still gone and the verified flag of the
\* report (verified_changed) is false
C15_VerificationFailureReported ==
    (entry = "wipe_file" /\ result.status = "returned"
        /\ verification_result.present /\ ~verification_result.verified)
       => (ents[path] = "none" /\ result.verified = "false")

\* C16: at most one wipe executes at a time: a call made while another call
\* is in progress is rejected with Busy and makes no step on its target
C16_BusyRejection ==
    /\ Cardinality({c \in Callers : calls[c].pc = "running"}) <= 1
    /\ \A c \in Callers :
          calls[c].overlapped => (calls[c].pc = "rejected" /\ calls[c].steps = 0)

\* C17: wipe_drive hands a volume to the flash-optimized wiper exactly when
\* the classifier says usb_flash, otherwise to the raw device wiper when raw
\* wiping was requested and privileges are held, otherwise to the filesystem
\* drive wiper; the method handed on is the method the caller requested
C17_DispatcherRouting ==
    (entry = "wipe_drive" /\ route # "none") =>
       /\ route = (IF drive_type = "usb_flash" THEN "flash"
                   ELSE IF raw_requested /\ is_admin THEN "raw"
                   ELSE "filesystem")
       /\ method_used = method

\* the exit status the command surface prescribes for an ended run
SpecExitStatus ==
    IF method \notin Methods \/ argkind = "none" THEN 3
    ELSE IF InDenySet(target, platform) THEN 2
    ELSE IF result.status = "raised" THEN 1
    ELSE 0
\* C20: the CLI exits 0 when the wipe succeeds, 1 on an engine failure, 2
\* when the safety guard rejects the target and 3 on an invalid argument
C20_CliExitCodes ==
    (entry = "main" /\ tpc = "exited") => exit_code = SpecExitStatus

\* the records of the fallback follow the step sequence: fill, format, five
\* overlay passes zero, one, random, random, random, fill, format, controller
FlashOrderKept ==
    /\ Len(fl_results) <= Len(FlashSteps)
    /\ \A i \in 1..Len(fl_results) :
          /\ fl_results[i].step = FlashSteps[i].helper
          /\ fl_results[i].pattern = FlashSteps[i].pattern
\* the call never raises, and a fallback that has returned has one record
\* for every step
FlashOutcomeComplete ==
    /\ flpc # "raised"
    /\ (flpc = "returned" /\ fl_i > 0) => Len(fl_results) = Len(FlashSteps)
\* C18: the fallback of _usb_flash_secure_wipe runs its steps in the fixed
\* order, a step that fails contributes a record with status error, partial
\* or skipped, the steps after it still run, and the call returns one record
\* per step without raising
C18_FlashFallback ==
    entry = "_usb_flash_secure_wipe" =>
       /\ FlashOrderKept
       /\ FlashOutcomeComplete
       /\ \A i \in 1..Len(fl_results) :
             fl_results[i].failed =>
                fl_results[i].status \in {"error", "partial", "skipped"}

\* C19: when get_available_drives returns, every volume that exists is in
\* the list, one whose usage query failed with total, free and used 0; an
\* enumeration error is a raised failure
C19_NoVolumeDropped ==
    entry = "get_available_drives" =>
       /\ epc = "returned" =>
             \A i \in 1..Len(volumes) :
                volumes[i].exists =>
                   \E j \in 1..Len(drives) :
                      /\ drives[j].path = i
                      /\ volumes[i].usage = "fail" =>
                            drives[j] = DriveEntry(i, ZeroUsage)
       /\ epc = "raised" => result.error = "EnumerationFailed"

(***************************************************************************)
(* WipeLogger (logger.py)                                                  *)
(***************************************************************************)
logframe == <<envvars, iovars, devvars, filevars, treevars, dispvars,
              callvars, flashvars, enumvars, guivars, result>>

\* the number of operations _add_to_main_log keeps in wipe_history.json
log_cap == 100

\* the state after WipeLogger.__init__ on a fresh log directory:
\* _initialize_log_file has written total_operations 0 and no operations
InitLog ==
    /\ entry = "log_operation"
    /\ platform = "Linux" /\ is_admin = FALSE
    /\ method \in Methods
    /\ verify = TRUE
    /\ now = 0 /\ operations = <<>> /\ total_operations = 0
    /\ op_logs = {} /\ log_calls = 0 /\ same_second = 0
    /\ IoIdle /\ DevIdle /\ FileIdle /\ TreeIdle /\ DispIdle
    /\ CallIdle /\ FlashIdle /\ EnumIdle /\ GuiIdle
    /\ result = NoResult

\* operation_id = f"op_{int(time.time())}_{method}": the second and the method
OperationId(t, m) == <<t, m>>

\* data['operations'][-100:]
LastOperations(ops) ==
    IF Len(ops) > log_cap THEN SubSeq(ops, Len(ops) - log_cap + 1, Len(ops))
    ELSE ops

\* _add_to_main_log: append, set total_operations to the length of the list
\* as it is then, and only after that cut the list to its last 100
AddToMainLog(ops, e) ==
    LET appended == Append(ops, e)
    IN  [operations |-> LastOperations(appended),
         total_operations |-> Len(appended)]

\* _create_operation_log: open(<log_dir>/<operation_id>.json, 'w') creates the
\* file or replaces the contents of the file that has this name
CreateOperationLog(files, e) ==
    {f \in files : f.operation_id # e.operation_id} \cup {e}

\* log_operation(operation_data).  The clock has moved on to the next second
\* since the call before, or it has not.  'timestamp' is
\* datetime.now().isoformat(), which has microsecond resolution: it is the
\* number of the call.
LogOperation ==
    /\ entry = "log_operation"
    /\ log_calls < MaxLogCalls
    /\ \E tick \in {0, 1} :
         /\ tick = 0 => log_calls > 0 /\ same_second < MaxSameSecond
         /\ LET log_entry == [operation_id |-> OperationId(now + tick, method),
                              timestamp |-> log_calls + 1]
                data == AddToMainLog(operations, log_entry)
            IN  /\ operations' = data.operations
                /\ total_operations' = data.total_operations
                /\ op_logs' = CreateOperationLog(op_logs, log_entry)
         /\ now' = now + tick
         /\ same_second' = same_second + (1 - tick)
    /\ log_calls' = log_calls + 1
    /\ UNCHANGED logframe

\* C21: after any sequence of log_operation calls the root log holds at most
\* 100 operations, they are the most recently logged ones in logging order,
\* and n calls leave n per-operation files.
C21_LogCap ==
    entry = "log_operation" =>
        /\ Len(operations) = Min(log_calls, log_cap)
        /\ \A i \in 1..Len(operations) :
             operations[i].timestamp = log_calls - Len(operations) + i
        /\ Cardinality(op_logs) = log_calls

\* C30: after any sequence of log_operation calls total_operations equals
\* the number of entries of the operations array of the root log.
C30_TotalOperations ==
    entry = "log_operation" => total_operations = Len(operations)

\* the bytes of the writes of w that belong to a pass of the set ps
RECURSIVE BytesOf(_, _)
BytesOf(w, ps) ==
    IF w = <<>> THEN 0
    ELSE (IF Head(w)[1] \in ps THEN Head(w)[3] ELSE 0) + BytesOf(Tail(w), ps)
AnyWrite == 0..3
PassWrite == 1..3
SlackWrite == {0}
PassesOf(m) == IF m = "dod" THEN 3 ELSE 1
WipedFile == entry = "wipe_file" /\ fpc = "returned"

C23_WalkStep ==
    (/\ entry = "wipe_drive" /\ tpc = "d_files" /\ fi <= Len(flist)
     /\ fi' = fi + 1 /\ method \in Methods
     /\ tree[flist[fi][1]][flist[fi][2]] = "data"
     /\ tree'[flist[fi][1]][flist[fi][2]] = "none")
       => results'[Len(results')].passes = Len(FilePatterns(method))

\* C23: in the filesystem path of wipe_drive every non-empty regular file
\* found by the walk has the full pass program of the requested method
\* written over its contents before it is unlinked.
C23_OverwriteBeforeUnlink == [][C23_WalkStep]_vars

\* C24: after a successful wipe of a non-empty file the unlink has been
\* applied to the file under the last name the obscure-rename step gave it:
\* the overwritten file is reachable under no name of its directory, neither
\* the original one nor an obscured one.
C24_UnlinkFollowsRename ==
    (WipedFile /\ fsize > 0) => \A n \in Names : ents[n] # "target"

\* a step in which a write, a flush or an fsync of a pass fails
C26_FailureStep ==
    /\ entry = "wipe_file" /\ fpc = "ov_write" /\ fpc' # "ov_write"
    /\ writes' = writes /\ synced' = synced

\* C26: when a write or sync fails during a pass, wipe_file gives up the
\* remaining passes and goes on to its unlink step instead of ending the
\* call there; the failure is kept for the outcome, which is not an
\* exception raised before the unlink was tried.
C26_WriteFailureHandled ==
    [][C26_FailureStep => (fpc' \in {"rename", "remove"}
                              /\ result'.status # "raised")]_vars

\* a step leaves every sibling of the target in its directory as it is
C28_SiblingsKept ==
    entry = "wipe_file" =>
        \A n \in Names : ents[n] = "sibling" => ents'[n] = "sibling"

\* C28: for every choice of the random names the obscure-rename step leaves
\* every other entry of the containing directory present and unchanged.
C28_RenameKeepsSiblings == [][C28_SiblingsKept]_vars

\* C25: when a fill step or an overlay pass of the flash fallback returns,
\* with status success or after a write error, none of the temporary files
\* it created (wipe_fill_temp.dat, wipe_pattern_*.tmp) is left on the volume.
C25_TempFilesRemoved ==
    entry = "_usb_flash_secure_wipe" =>
        \A i \in 1..Len(fl_results) :
            fl_results[i].step \in {"drive_fill", "overwrite_pass"}
                => fl_results[i].temp_left = 0

\* the device nodes that back a volume: the node it is mounted from and the
\* disk that node is a partition of
BackingDevices(plat, source) == {source, DiskOf(source)} \cap DeviceNodes(plat)

\* C27: a raw or flash wipe requested for a mounted volume writes only to
\* the block device that backs the mount path, and formats only that
\* volume; when the mount path cannot be mapped to a device node nothing is
\* written to any device node.
C27_NoEscapeDevice ==
    entry = "_usb_flash_secure_wipe" =>
        /\ raw_written \subseteq BackingDevices(platform, backing)
        /\ \A i \in 1..Len(fl_results) :
              (fl_results[i].step = "format_drive"
                  /\ fl_results[i].status = "success")
                 => FormatDevice(platform, drive_path) = DriveLetterOf(drive_path) \o ":"

(***************************************************************************)
(* The GUI (gui.py): App.start_wipe on the UI thread and App._do_wipe on   *)
(* the worker thread it starts                                             *)
(***************************************************************************)
guiframe == <<envvars, iovars, devvars, filevars, treevars, dispvars,
              callvars, flashvars, enumvars, logvars, result>>

\* what the target entry can hold, the methods of the combobox
GuiPaths == {"", "/data/x", "/data/x/", "/data/y"}
GuiMethods == Methods
\* os.path.abspath(os.path.normpath(path.strip())): the empty string becomes
\* '.', which is the current directory of the process; a trailing separator
\* is dropped
Normalize(p) ==
    IF p = "" THEN "/home/user"
    ELSE IF p = "/data/x/" THEN "/data/x"
    ELSE p

InitGui ==
    /\ entry = "gui"
    /\ platform = "Linux" /\ is_admin = FALSE /\ method = "quick" /\ verify = TRUE
    /\ path_var = "" /\ method_var = "quick" /\ verify_var = TRUE
    /\ run_btn = "normal" /\ confirmed = NoWipe /\ wpc = "none"
    /\ do_wipe = NoWipe /\ threads = 0 /\ started = 0
    /\ IoIdle /\ DevIdle /\ FileIdle /\ TreeIdle /\ DispIdle
    /\ CallIdle /\ FlashIdle /\ EnumIdle /\ LogIdle
    /\ result = NoResult

\* the UI thread handles an event of the entry, the browse buttons, the
\* combobox or the checkbox: none of them is disabled while a wipe runs
UserEdit ==
    /\ entry = "gui"
    /\ \/ \E p \in GuiPaths \ {path_var} :
             path_var' = p /\ UNCHANGED <<method_var, verify_var>>
       \/ \E m \in GuiMethods \ {method_var} :
             method_var' = m /\ UNCHANGED <<path_var, verify_var>>
       \/ verify_var' = ~verify_var /\ UNCHANGED <<path_var, method_var>>
    /\ UNCHANGED <<guiframe, run_btn, confirmed, wpc, do_wipe, threads, started>>

\* start_wipe, the command of run_btn, up to t.start(), for a run in which
\* the path is not empty, exists and is accessible and the user answers yes
\* in the dialog (every other run returns without a change).  The dialog is
\* modal: no other event is handled before start_wipe returns.
StartWipe ==
    /\ entry = "gui"
    /\ run_btn = "normal"
    /\ started < MaxWipes
    /\ path_var # ""
    /\ confirmed' = [path |-> Normalize(path_var), method |-> method_var,
                     verify |-> verify_var]
    /\ run_btn' = "disabled"
    /\ wpc' = "started"
    /\ threads' = threads + 1
    /\ started' = started + 1
    /\ UNCHANGED <<guiframe, path_var, method_var, verify_var, do_wipe>>

\* _do_wipe: path, method and verify are read from the variables of the
\* widgets again, and the path is normalized
DoWipeRead ==
    /\ wpc = "started"
    /\ do_wipe' = [path |-> Normalize(path_var), method |-> method_var,
                   verify |-> verify_var]
    /\ wpc' = "read"
    /\ UNCHANGED <<guiframe, path_var, method_var, verify_var, run_btn,
                   confirmed, threads, started>>

\* _do_wipe: wipe_drive, wipe_file or wipe_folder is called with the locals;
\* it returns or raises, and the certificate and the log entry follow
DoWipeEngine ==
    /\ wpc = "read"
    /\ wpc' = "wiped"
    /\ UNCHANGED <<guiframe, path_var, method_var, verify_var, run_btn,
                   confirmed, do_wipe, threads, started>>

\* finally: self.run_btn.configure(state='normal'), and the thread ends
DoWipeFinally ==
    /\ wpc = "wiped"
    /\ run_btn' = "normal"
    /\ wpc' = "none"
    /\ threads' = threads - 1
    /\ UNCHANGED <<guiframe, path_var, method_var, verify_var, confirmed,
                   do_wipe, started>>

\* C29: under every interleaving of the UI thread and the worker thread the
\* path, method and verify flag _do_wipe reads and passes to the engine are
\* the ones start_wipe validated and the user confirmed, and no second
\* worker is started while one is running.
C29_WipesWhatWasConfirmed ==
    entry = "gui" =>
        /\ wpc \in {"read", "wiped"} => do_wipe = confirmed
        /\ threads <= 1

NextTree == CliDispatch \/ CliWipeFile \/ CliExit \/ FolderValidate \/ FolderWipeFile \/ FolderDirsBegin
            \/ FolderRemoveDir \/ FolderRemoveRoot \/ DriveGuard
            \/ DriveWipeFile \/ DriveDirsBegin \/ DriveRemoveDir
            \/ DriveCleanupBegin \/ DriveCleanupFile \/ DriveReturn

\* one call of _raw_device_wipe or of wipe_file
Init == InitDev \/ InitFile
Next == NextDev \/ NextFile
Spec == Init /\ [][Next]_vars

\* one call of wipe_folder, of wipe_drive or of the CLI on a directory
SpecTree == InitTree /\ [][NextTree]_vars
NextCalls == \/ \E c \in Callers : CallBegin(c)
             \/ \E c \in Callers : CallStep(c)
             \/ \E c \in Callers : CallReturn(c)
SpecCalls == InitCalls /\ [][NextCalls]_vars
NextFlash == FlashAdminCheck \/ FlashRawWipe \/ FlashStep \/ FlashReturn
SpecFlash == InitFlash /\ [][NextFlash]_vars
NextEnum == EnumBegin \/ EnumLetter \/ EnumPartition \/ EnumReturn
SpecEnum == InitEnum /\ [][NextEnum]_vars
NextLog == LogOperation
SpecLog == InitLog /\ [][NextLog]_vars
NextGui == UserEdit \/ StartWipe \/ DoWipeRead \/ DoWipeEngine \/ DoWipeFinally
SpecGui == InitGui /\ [][NextGui]_vars
====
